---- MODULE Spec2Model ----
(***************************************************************************)
(* CropCare: the App component (scan / history / settings / developer      *)
(* views, the analysis request, the persisted scan history) and the        *)
(* ImageUpload component (file selection and the camera session driven by  *)
(* a React effect on [showCamera, facingMode]).                            *)
(*                                                                         *)
(* One action is one JavaScript task: an event handler or the continuation *)
(* of an awaited promise, together with the React render, the effect       *)
(* cleanup and the effect run that the handler's state updates cause.      *)
(***************************************************************************)
EXTENDS Integers, Sequences, FiniteSets

\* ------------------------------------------------------------------ bounds
MaxScans == 2       \* handleImageAnalysis invocations explored
MaxEffects == 3     \* setupStream runs that reach getUserMedia
MaxSpecEffects == 2 \* of them in Spec, where images are analysed too
MaxGeo == 1         \* getCurrentPosition requests awaited at once
MaxTorch == 1       \* applyConstraints calls pending on one track

\* ------------------------------------------------------- program constants
HistoryCap == 50
HAVE_NOTHING == 0
HAVE_METADATA == 1

\* ------------------------------------------------------------------ values
Null == [null |-> TRUE]

Views == {"scan", "history", "settings", "developer"}

\* file.type as a sequence of tokens, so that startsWith is computed
ImagePrefix == <<"image", "/">>
Files ==
  { [name |-> "leaf.png", type |-> <<"image", "/", "png">>],
    [name |-> "notes.txt", type |-> <<"text", "/", "plain">>],
    [name |-> "image", type |-> <<"image">>] }

\* the payload analyzeImage resolves with
AnalysisResults ==
  { [crop_name |-> "wheat", disease_detected |-> TRUE] }

ErrorAnalysis == [msg |-> "error.analysis"]

\* the GeolocationPosition that getCurrentPosition delivers
Positions ==
  { [coords |-> [latitude |-> "lat", longitude |-> "lon", accuracy |-> "acc"]] }

Min(a, b) == IF a < b THEN a ELSE b

\* startsWith that compares the first token only
startsWithFirstToken(s, prefix) ==
  /\ Len(s) >= 1
  /\ s[1] = prefix[1]

\* String.prototype.startsWith
startsWith(s, prefix) ==
  /\ Len(s) >= Len(prefix)
  /\ \A i \in 1..Len(prefix) : s[i] = prefix[i]

\* Array.prototype.slice(from, to) with 0 <= from
slice(s, from, to) == SubSeq(s, from + 1, Min(to, Len(s)))

\* FileReader.readAsDataURL: reader.result at loadend (null when the read failed)
readAsDataURL(file, ok) ==
  IF ok THEN [kind |-> "dataurl", of |-> file.name] ELSE Null

\* canvas.toDataURL of the drawn frame
toDataURL(frameFacing, mirrored) ==
  [kind |-> "jpeg", frame |-> frameFacing, mirrored |-> mirrored]

\* ------------------------------------------------------- persisted history
\* localStorage['cropcare_history'] by the shape of the stored text:
\*   "null" no item, "empty" the empty string, "invalid" not JSON,
\*   "nonarray" JSON that is not an array, "array" a JSON array (items).
StoredNull == [kind |-> "null", items |-> <<>>]
StoredText(k) == [kind |-> k, items |-> <<>>]

JSONstringify(arr) == [kind |-> "array", items |-> arr]

\* JSON.parse: throws on text that is not JSON, the empty string included
JSONparse(st) ==
  [threw |-> st.kind \in {"invalid", "empty"},
   isArray |-> st.kind = "array",
   value |-> st.items]

ScanResult(id, imageBase64, res) ==
  [id |-> id,
   imageUrl |-> imageBase64,
   cropName |-> res.crop_name,
   diseaseDetected |-> res.disease_detected,
   results |-> res]

\* What the browser does with one saveToHistory call: "ok", or
\* "nouuid" (crypto.randomUUID is undefined outside a secure context), or
\* "quota" (localStorage.setItem throws QuotaExceededError).
Browser == {"ok", "nouuid", "quota"}

\* saveToHistory: the new value of the storage item, or threw
saveToHistory(st, id, imageBase64, res, env) ==
  LET historyItem == ScanResult(id, imageBase64, res)
      savedHistory == st
      truthy == savedHistory.kind \notin {"null", "empty"}
      parsed == JSONparse(savedHistory)
  IN  IF env = "nouuid"                           \* crypto.randomUUID is not a function
        THEN [threw |-> TRUE, stored |-> st]
      ELSE IF truthy /\ parsed.threw
        THEN [threw |-> TRUE, stored |-> st]
      ELSE IF truthy /\ ~parsed.isArray            \* history.unshift is not a function
        THEN [threw |-> TRUE, stored |-> st]
      ELSE IF env = "quota"                       \* setItem threw, nothing is written
        THEN [threw |-> TRUE, stored |-> st]
      ELSE LET history == IF truthy THEN parsed.value ELSE <<>>
               unshifted == <<historyItem>> \o history
           IN  [threw |-> FALSE,
                stored |-> JSONstringify(slice(unshifted, 0, HistoryCap))]

\* an entry written by an earlier session
PriorEntry(i) ==
  ScanResult(i, [kind |-> "dataurl", of |-> "earlier"],
             [crop_name |-> "rice", disease_detected |-> FALSE])

\* n earlier entries, newest (largest id) first
PriorList(n) == [i \in 1..n |-> PriorEntry(n + 1 - i)]

VARIABLES
  \* App state (useState)
  showSplash, analyzing, results, currentImage, error, currentView, location,
  \* the argument of the last handleLocationToggle call; the number of
  \* getCurrentPosition requests it is awaiting
  locationEnabled, geoPending,
  \* localStorage item 'cropcare_history'
  stored,
  \* handleImageAnalysis invocations that are suspended at an await
  requests,
  nScans,        \* handleImageAnalysis invocations so far
  analyzeCalls,  \* analyzeImage calls so far: the invocation that made each
  nextId,        \* crypto.randomUUID: next fresh identifier
  \* ImageUpload state (useState / useRef / the registered effect)
  showCamera, stream, facingMode, isCameraLoading, isTorchSupported, isTorchOn,
  videoRef, curEffect,
  \* effect closures, video elements and media streams
  effects, videos, streams,
  \* the log of successful analyses (newest first); the alert() that the last
  \* step raised
  scanLog, lastAlert

geoVars == <<locationEnabled, geoPending>>
appVars == <<showSplash, analyzing, results, currentImage, error, currentView,
             location, geoVars, stored, requests, nScans, analyzeCalls, nextId,
             scanLog>>
compVars == <<showCamera, stream, facingMode, isCameraLoading, isTorchSupported,
              isTorchOn, videoRef, curEffect>>
devVars == <<effects, videos, streams>>
camVars == <<compVars, devVars>>
vars == <<appVars, camVars, lastAlert>>

\* ------------------------------------------------------------- rendering
\* ImageUpload rendered whether or not an analysis is pending
ImageUploadRenderedWhileBusy(splash, view, busy, res) ==
  ~splash /\ view = "scan" /\ res = Null

\* App renders <ImageUpload> in the idle sub-view of the scan view
ImageUploadRendered(splash, view, busy, res) ==
  ~splash /\ view = "scan" /\ ~busy /\ res = Null

Mounted == ImageUploadRendered(showSplash, currentView, analyzing, results)
MountedNext == ImageUploadRendered(showSplash', currentView', analyzing', results')

\* the inline error paragraph inside the idle sub-view
ErrorIndicatorVisible == Mounted /\ error # Null
AnalyzingOverlayRendered == ~showSplash /\ currentView = "scan" /\ analyzing
ResultsDisplayRendered ==
  ~showSplash /\ currentView = "scan" /\ results # Null /\ ~analyzing
  /\ currentImage # Null

\* ------------------------------------------------- effect closures, devices
BlankVideo ==
  [srcObject |-> 0, onloadedmetadata |-> 0, readyState |-> HAVE_NOTHING,
   hasDims |-> FALSE]

\* the closure of one setupStream run that reached getUserMedia
NewEffect(mode, el, by) ==
  [mode |-> mode, el |-> el, by |-> by, currentStream |-> 0,
   cleaned |-> FALSE, mounted |-> TRUE,
   gumPending |-> TRUE, iplayPending |-> FALSE, mplayPending |-> FALSE]

\* closure variables of the registered effect (0 stands for null)
currentStreamOf(e) == IF e = 0 THEN 0 ELSE effects[e].currentStream
videoElementOf(e) == IF e = 0 THEN 0 ELSE effects[e].el

\* what the camera that getUserMedia delivered faces.  The request names the
\* facing mode as a preference ({video: {facingMode}}, not {exact: ...}): the
\* browser delivers the camera it has, which may face the other way or
\* report no facing mode at all.  The code never reads it; it shows in the
\* frame that capturePhoto draws.
Facings == {"environment", "user", "unknown"}

\* what track.getCapabilities gives on the new track: the method is missing
\* (the call throws), or the capabilities have no torch member, or a torch
\* member that is false, or one that is true
TorchCapabilities == {"nomethod", "absent", "false", "true"}

\* 'torch' in capabilities
torchIn(cap) == cap \in {"false", "true"}

\* capabilities.torch, as the condition of toggleTorch reads it
torchOf(cap) == cap = "true"

\* stream.getTracks().forEach(track => track.stop())
stopTracks(ss, s) == IF s = 0 THEN ss ELSE [ss EXCEPT ![s].live = FALSE]

\* cleanup: videoElement.srcObject = null; videoElement.onloadedmetadata = null
clearVideo(vs, v) == IF v = 0 THEN vs ELSE [vs EXCEPT ![v] = BlankVideo]

\* cleanup: setStream(prev => prev === currentStream ? null : prev)
streamAfterCleanup(prev, e) == IF prev = currentStreamOf(e) THEN 0 ELSE prev

\* cleanup: if (currentStream) currentStream.getTracks().forEach(stop)
streamsAfterCleanup(e) == stopTracks(streams, currentStreamOf(e))

markCleaned(es, e) == IF e = 0 THEN es ELSE [es EXCEPT ![e].cleaned = TRUE]

\* The closure of an effect whose component instance was unmounted.  What is
\* left of its play() continuations only calls state setters of the unmounted
\* instance and reads its videoRef (null), which does nothing: they are dropped.
orphaned(eff) ==
  [eff EXCEPT !.mounted = FALSE,
              !.iplayPending = FALSE,
              !.mplayPending = FALSE]

LiveStreams == {s \in 1..Len(streams) : streams[s].live}

\* ImageUpload leaves the tree: the registered cleanup runs, the state is gone
UnmountImageUpload ==
  /\ streams' = streamsAfterCleanup(curEffect)
  /\ videos' = clearVideo(videos, videoElementOf(curEffect))
  /\ effects' = [i \in 1..Len(effects) |->
                   orphaned(markCleaned(effects, curEffect)[i])]
  /\ showCamera' = FALSE
  /\ stream' = 0
  /\ facingMode' = "environment"
  /\ isCameraLoading' = FALSE
  /\ isTorchSupported' = FALSE
  /\ isTorchOn' = FALSE
  /\ videoRef' = 0
  /\ curEffect' = 0

\* the render after an App state change mounts or unmounts ImageUpload
Reconcile ==
  IF Mounted /\ ~MountedNext THEN UnmountImageUpload ELSE UNCHANGED camVars

\* the effect re-runs with showCamera true: cleanup of the previous run, then
\* setupStream up to its await of getUserMedia
RestartEffect(mode, el, by) ==
  /\ isCameraLoading' = TRUE
  /\ streams' = stopTracks(streamsAfterCleanup(curEffect), stream)
  /\ stream' = 0
  /\ effects' = Append(markCleaned(effects, curEffect), NewEffect(mode, el, by))
  /\ curEffect' = Len(effects) + 1

\* the effect re-runs with showCamera false: cleanup, setupStream returns
CloseEffect ==
  /\ isCameraLoading' = FALSE
  /\ streams' = streamsAfterCleanup(curEffect)
  /\ videos' = clearVideo(videos, videoElementOf(curEffect))
  /\ stream' = streamAfterCleanup(stream, curEffect)
  /\ curEffect' = 0
  /\ videoRef' = 0
  /\ showCamera' = FALSE

\* ------------------------------------------------------------------- Init
\* scanLog holds the successful analyses made so far, newest first.
\* The storage item is absent (a first run), holds the list that HistoryCap
\* earlier scans wrote, or holds text that is not JSON.
InitStorage ==
  \/ /\ stored = StoredNull
     /\ scanLog = <<>>
  \/ /\ stored = JSONstringify(PriorList(HistoryCap))
     /\ scanLog = PriorList(HistoryCap)
  \/ /\ stored = StoredText("invalid")
     /\ scanLog = <<>>

\* Every shape of the storage item: also the empty string, JSON that is no
\* array, a list one short of the cap, and text that stayed unusable while
\* HistoryCap analyses succeeded.
InitStorageAll ==
  \/ InitStorage
  \/ /\ stored \in {StoredText("empty"), StoredText("nonarray")}
     /\ scanLog = <<>>
  \/ /\ stored = JSONstringify(PriorList(HistoryCap - 1))
     /\ scanLog = PriorList(HistoryCap - 1)
  \/ /\ stored = StoredText("invalid")
     /\ scanLog = PriorList(HistoryCap)

InitState ==
  /\ showSplash = TRUE
  /\ analyzing = FALSE
  /\ results = Null
  /\ currentImage = Null
  /\ error = Null
  /\ currentView = "scan"
  /\ location = Null
  /\ locationEnabled = FALSE
  /\ geoPending = 0
  /\ requests = {}
  /\ nScans = 0
  /\ analyzeCalls = <<>>
  /\ nextId = Len(scanLog) + 1
  /\ showCamera = FALSE
  /\ stream = 0
  /\ facingMode = "environment"
  /\ isCameraLoading = FALSE
  /\ isTorchSupported = FALSE
  /\ isTorchOn = FALSE
  /\ videoRef = 0
  /\ curEffect = 0
  /\ effects = <<>>
  /\ videos = <<>>
  /\ streams = <<>>
  /\ lastAlert = "none"

Init == InitStorage /\ InitState

InitAll == InitStorageAll /\ InitState

\* ------------------------------------------------------------ App actions
\* SplashScreen onComplete
SplashComplete ==
  /\ showSplash
  /\ showSplash' = FALSE
  /\ UNCHANGED <<analyzing, results, currentImage, error, currentView, location, geoVars,
                 stored, requests, nScans, analyzeCalls, nextId, scanLog>>
  /\ Reconcile
  /\ lastAlert' = "none"

\* a navigation button that also runs the reset of the scan state
SetCurrentViewResets(v) ==
  /\ ~showSplash
  /\ v # currentView
  /\ currentView' = v
  /\ results' = Null
  /\ currentImage' = Null
  /\ error' = Null
  /\ UNCHANGED <<showSplash, analyzing, location, geoVars, stored, requests, nScans,
                 analyzeCalls, nextId, scanLog>>
  /\ Reconcile
  /\ lastAlert' = "none"

\* a navigation button: setCurrentView(v)
SetCurrentView(v) ==
  /\ ~showSplash
  /\ v # currentView
  /\ currentView' = v
  /\ UNCHANGED <<showSplash, analyzing, results, currentImage, error, location, geoVars,
                 stored, requests, nScans, analyzeCalls, nextId, scanLog>>
  /\ Reconcile
  /\ lastAlert' = "none"

\* handleImageAnalysis up to its first await; imageData is a File or a string
handleImageAnalysis(imageData, isFile) ==
  /\ nScans < MaxScans
  /\ nScans' = nScans + 1
  /\ analyzing' = TRUE
  /\ error' = Null
  /\ IF isFile
       THEN /\ requests' = requests \cup
                 {[rid |-> nScans + 1, stage |-> "reading", file |-> imageData,
                   image |-> Null, loc |-> location]}
            /\ UNCHANGED <<currentImage, analyzeCalls>>
       ELSE /\ requests' = requests \cup
                 {[rid |-> nScans + 1, stage |-> "analyzing", file |-> Null,
                   image |-> imageData, loc |-> location]}
            /\ currentImage' = imageData
            /\ analyzeCalls' = Append(analyzeCalls, nScans + 1)
  /\ UNCHANGED <<showSplash, results, currentView, location, geoVars, stored, nextId,
                 scanLog>>

\* reader.onloadend, with analyzeImage called a second time after the first
FileReadDoneCallsTwice(r, ok) ==
  /\ r \in requests
  /\ r.stage = "reading"
  /\ LET base64Image == readAsDataURL(r.file, ok)
     IN  /\ currentImage' = base64Image
         /\ requests' = (requests \ {r}) \cup
              {[r EXCEPT !.stage = "analyzing", !.image = base64Image]}
  /\ analyzeCalls' = analyzeCalls \o <<r.rid, r.rid>>
  /\ UNCHANGED <<showSplash, analyzing, results, error, currentView, location, geoVars,
                 stored, nScans, nextId, scanLog>>
  /\ Reconcile
  /\ lastAlert' = "none"

\* reader.onloadend: setCurrentImage, then analyzeImage is called
FileReadDone(r, ok) ==
  /\ r \in requests
  /\ r.stage = "reading"
  /\ LET base64Image == readAsDataURL(r.file, ok)
     IN  /\ currentImage' = base64Image
         /\ requests' = (requests \ {r}) \cup
              {[r EXCEPT !.stage = "analyzing", !.image = base64Image]}
  /\ analyzeCalls' = Append(analyzeCalls, r.rid)
  /\ UNCHANGED <<showSplash, analyzing, results, error, currentView, location, geoVars,
                 stored, nScans, nextId, scanLog>>
  /\ Reconcile
  /\ lastAlert' = "none"

\* analyzeImage resolved, with setResults and saveToHistory outside any try:
\* a throw of saveToHistory ends the invocation there
AnalysisResolvedNoFinally(r, res, env) ==
  /\ r \in requests
  /\ r.stage = "analyzing"
  /\ LET saved == saveToHistory(stored, nextId, r.image, res, env)
     IN  /\ results' = res
         /\ stored' = saved.stored
         /\ analyzing' = saved.threw
  /\ nextId' = nextId + 1
  /\ scanLog' = <<ScanResult(nextId, r.image, res)>> \o scanLog
  /\ requests' = requests \ {r}
  /\ UNCHANGED <<showSplash, currentImage, error, currentView, location, geoVars,
                 nScans, analyzeCalls>>
  /\ Reconcile
  /\ lastAlert' = "none"

\* analyzeImage resolved: setResults, saveToHistory, catch, finally
AnalysisResolved(r, res, env) ==
  /\ r \in requests
  /\ r.stage = "analyzing"
  /\ LET saved == saveToHistory(stored, nextId, r.image, res, env)
     IN  /\ results' = res
         /\ stored' = saved.stored
         /\ error' = IF saved.threw THEN ErrorAnalysis ELSE error
  /\ nextId' = nextId + 1
  /\ scanLog' = <<ScanResult(nextId, r.image, res)>> \o scanLog
  /\ analyzing' = FALSE
  /\ requests' = requests \ {r}
  /\ UNCHANGED <<showSplash, currentImage, currentView, location, geoVars, nScans,
                 analyzeCalls>>
  /\ Reconcile
  /\ lastAlert' = "none"

\* analyzeImage rejected, without the finally block
AnalysisRejectedNoFinally(r) ==
  /\ r \in requests
  /\ r.stage = "analyzing"
  /\ error' = ErrorAnalysis
  /\ requests' = requests \ {r}
  /\ UNCHANGED <<showSplash, analyzing, results, currentImage, currentView,
                 location, geoVars, stored, nScans, analyzeCalls, nextId, scanLog>>
  /\ Reconcile
  /\ lastAlert' = "none"

\* analyzeImage rejected: catch, finally
AnalysisRejected(r) ==
  /\ r \in requests
  /\ r.stage = "analyzing"
  /\ error' = ErrorAnalysis
  /\ analyzing' = FALSE
  /\ requests' = requests \ {r}
  /\ UNCHANGED <<showSplash, results, currentImage, currentView, location, geoVars,
                 stored, nScans, analyzeCalls, nextId, scanLog>>
  /\ Reconcile
  /\ lastAlert' = "none"

\* ResultsDisplay onReset
handleReset ==
  /\ ResultsDisplayRendered
  /\ results' = Null
  /\ currentImage' = Null
  /\ error' = Null
  /\ UNCHANGED <<showSplash, analyzing, currentView, location, geoVars, stored, requests,
                 nScans, analyzeCalls, nextId, scanLog>>
  /\ Reconcile
  /\ lastAlert' = "none"

\* Settings is rendered in the settings view
SettingsRendered == ~showSplash /\ currentView = "settings"

\* handleLocationToggle(enabled) up to its await (Settings onLocationToggle)
handleLocationToggle(enabled) ==
  /\ SettingsRendered
  /\ locationEnabled' = enabled
  /\ IF enabled
       THEN /\ geoPending < MaxGeo
            /\ geoPending' = geoPending + 1
            /\ UNCHANGED location
       ELSE /\ location' = Null
            /\ UNCHANGED geoPending
  /\ UNCHANGED <<showSplash, analyzing, results, currentImage, error, currentView,
                 stored, requests, nScans, analyzeCalls, nextId, scanLog>>
  /\ Reconcile
  /\ lastAlert' = "none"

\* getCurrentPosition success callback: setLocation({latitude, longitude})
GeoResolved(position) ==
  /\ geoPending > 0
  /\ geoPending' = geoPending - 1
  /\ location' = [latitude |-> position.coords.latitude,
                  longitude |-> position.coords.longitude]
  /\ UNCHANGED <<showSplash, analyzing, results, currentImage, error, currentView,
                 locationEnabled, stored, requests, nScans, analyzeCalls, nextId,
                 scanLog>>
  /\ Reconcile
  /\ lastAlert' = "none"

\* getCurrentPosition error callback: catch, setLocation(null)
GeoRejected ==
  /\ geoPending > 0
  /\ geoPending' = geoPending - 1
  /\ location' = Null
  /\ UNCHANGED <<showSplash, analyzing, results, currentImage, error, currentView,
                 locationEnabled, stored, requests, nScans, analyzeCalls, nextId,
                 scanLog>>
  /\ Reconcile
  /\ lastAlert' = "none"

\* ----------------------------------------------------- ImageUpload actions
\* handleFileInput / handleFile
handleFile(file) ==
  /\ Mounted
  /\ ~showCamera
  /\ IF startsWith(file.type, ImagePrefix)
       THEN /\ handleImageAnalysis(file, TRUE)
            /\ Reconcile
            /\ lastAlert' = "none"
       ELSE /\ lastAlert' = "Please upload an image file"
            /\ UNCHANGED <<appVars, camVars>>

\* handleStartCameraClick without setFacingMode('environment')
handleStartCameraClickKeepsMode ==
  /\ Mounted
  /\ ~showCamera
  /\ Len(effects) < MaxEffects
  /\ showCamera' = TRUE
  /\ videos' = Append(videos, BlankVideo)
  /\ videoRef' = Len(videos) + 1
  /\ RestartEffect(facingMode, Len(videos) + 1, "start")
  /\ UNCHANGED <<facingMode, isTorchSupported, isTorchOn, appVars>>
  /\ lastAlert' = "none"

\* handleStartCameraClick, the render that creates the <video>, the effect
handleStartCameraClick ==
  /\ Mounted
  /\ ~showCamera
  /\ Len(effects) < MaxEffects
  /\ facingMode' = "environment"
  /\ showCamera' = TRUE
  /\ videos' = Append(videos, BlankVideo)
  /\ videoRef' = Len(videos) + 1
  /\ RestartEffect("environment", Len(videos) + 1, "start")
  /\ UNCHANGED <<isTorchSupported, isTorchOn, appVars>>
  /\ lastAlert' = "none"

\* stopCamera (the close button)
stopCamera ==
  /\ Mounted
  /\ showCamera
  /\ ~isCameraLoading
  /\ CloseEffect
  /\ effects' = markCleaned(effects, curEffect)
  /\ UNCHANGED <<facingMode, isTorchSupported, isTorchOn, appVars>>
  /\ lastAlert' = "none"

\* toggleCamera (the switch button), the effect restart it causes
toggleCamera ==
  /\ Mounted
  /\ showCamera
  /\ ~isCameraLoading
  /\ Len(effects) < MaxEffects
  /\ LET mode == IF facingMode = "environment" THEN "user" ELSE "environment"
     IN  /\ facingMode' = mode
         /\ RestartEffect(mode, videoRef,
                          IF stream # 0 THEN "toggle" ELSE "toggle-closed")
  /\ videos' = clearVideo(videos, videoElementOf(curEffect))
  /\ UNCHANGED <<showCamera, videoRef, isTorchSupported, isTorchOn, appVars>>
  /\ lastAlert' = "none"

\* capturePhoto without the check of videoWidth and videoHeight
capturePhotoNoDimensionCheck(ctx, facing) ==
  /\ Mounted
  /\ showCamera
  /\ ~isCameraLoading
  /\ videoRef # 0
  /\ facing \in Facings
  /\ LET video == videos[videoRef]
     IN  IF video.readyState < HAVE_METADATA
           THEN /\ lastAlert' = "Camera is not ready yet. Please wait a moment."
                /\ UNCHANGED <<appVars, camVars>>
         ELSE IF ~ctx
           THEN /\ lastAlert' = "Failed to capture photo. Could not process image."
                /\ UNCHANGED <<appVars, camVars>>
         ELSE /\ handleImageAnalysis(
                   toDataURL(facing, facingMode = "user"), FALSE)
              /\ Reconcile
              /\ lastAlert' = "none"

\* capturePhoto (the capture button); ctx is what canvas.getContext returned,
\* facing what the camera behind the video element faces
capturePhoto(ctx, facing) ==
  /\ Mounted
  /\ showCamera
  /\ ~isCameraLoading
  /\ videoRef # 0
  /\ facing \in Facings
  /\ LET video == videos[videoRef]
         ready == video.readyState >= HAVE_METADATA /\ video.hasDims
     IN  /\ ready \/ ctx
         /\ IF video.readyState < HAVE_METADATA
              THEN /\ lastAlert' = "Camera is not ready yet. Please wait a moment."
                   /\ UNCHANGED <<appVars, camVars>>
            ELSE IF ~video.hasDims
              THEN /\ lastAlert' =
                        "Camera is not ready yet, please wait a moment and try again."
                   /\ UNCHANGED <<appVars, camVars>>
            ELSE IF ~ctx
              THEN /\ lastAlert' = "Failed to capture photo. Could not process image."
                   /\ UNCHANGED <<appVars, camVars>>
            ELSE /\ handleImageAnalysis(
                      toDataURL(facing, facingMode = "user"), FALSE)
                 /\ Reconcile
                 /\ lastAlert' = "none"

\* the component instance whose setupStream acquired stream s is mounted
holderMounted(s) ==
  \E e \in 1..Len(effects) : effects[e].currentStream = s /\ effects[e].mounted

\* toggleTorch (the flashlight button) up to its await of applyConstraints;
\* track.getSettings().torch decides the value that is requested
toggleTorch ==
  /\ Mounted
  /\ showCamera
  /\ ~isCameraLoading
  /\ IF stream = 0
       THEN /\ UNCHANGED streams
            /\ lastAlert' = "none"
     ELSE IF ~streams[stream].torchCap
       THEN /\ UNCHANGED streams
            /\ lastAlert' = "Torch is not supported."
     ELSE /\ streams[stream].applyingOn + streams[stream].applyingOff < MaxTorch
          /\ streams' = IF streams[stream].torch
               THEN [streams EXCEPT ![stream].applyingOff = @ + 1]
               ELSE [streams EXCEPT ![stream].applyingOn = @ + 1]
          /\ lastAlert' = "none"
  /\ UNCHANGED <<compVars, effects, videos, appVars>>

\* applyConstraints settled, with setIsTorchOn after the try block
TorchAppliedFlipsAlways(s, on, ok) ==
  /\ s \in 1..Len(streams)
  /\ IF on THEN streams[s].applyingOn > 0 ELSE streams[s].applyingOff > 0
  /\ LET settled == IF on THEN [streams EXCEPT ![s].applyingOn = @ - 1]
                          ELSE [streams EXCEPT ![s].applyingOff = @ - 1]
     IN  /\ streams' = IF ok /\ streams[s].live
                         THEN [settled EXCEPT ![s].torch = on]
                         ELSE settled
         /\ lastAlert' = IF ok THEN "none" ELSE "Unable to toggle torch."
  /\ isTorchOn' = IF holderMounted(s) THEN ~isTorchOn ELSE isTorchOn
  /\ UNCHANGED <<showCamera, stream, facingMode, isCameraLoading, isTorchSupported,
                 videoRef, curEffect, effects, videos, appVars>>

\* track.applyConstraints({advanced: [{torch: on}]}) settled: on success
\* setIsTorchOn(prev => !prev), on failure the alert of the catch.  On a track
\* that was stopped meanwhile the device setting does not change.
TorchApplied(s, on, ok) ==
  /\ s \in 1..Len(streams)
  /\ IF on THEN streams[s].applyingOn > 0 ELSE streams[s].applyingOff > 0
  /\ LET settled == IF on THEN [streams EXCEPT ![s].applyingOn = @ - 1]
                          ELSE [streams EXCEPT ![s].applyingOff = @ - 1]
     IN  IF ok
           THEN /\ streams' = IF streams[s].live
                                THEN [settled EXCEPT ![s].torch = on]
                                ELSE settled
                /\ isTorchOn' = IF holderMounted(s) THEN ~isTorchOn ELSE isTorchOn
                /\ lastAlert' = "none"
           ELSE /\ streams' = settled
                /\ UNCHANGED isTorchOn
                /\ lastAlert' = "Unable to toggle torch."
  /\ UNCHANGED <<showCamera, stream, facingMode, isCameraLoading, isTorchSupported,
                 videoRef, curEffect, effects, videos, appVars>>

\* ------------------------------------------- device and promise completions
\* getUserMedia resolved: the continuation of setupStream up to play()
\* cap is what getCapabilities gives on the track of the new stream.
\* Without getCapabilities the call throws once currentStream is assigned:
\* the catch of setupStream runs and the effect it re-runs cleans up.
GumResolved(e, cap) ==
  /\ e \in 1..Len(effects)
  /\ effects[e].gumPending
  /\ cap \in TorchCapabilities
  /\ LET s == Len(streams) + 1
         acquired == Append(streams,
              [live |-> TRUE, torchCap |-> torchOf(cap),
               torch |-> FALSE, applyingOn |-> 0, applyingOff |-> 0])
         held == [effects EXCEPT ![e].currentStream = s, ![e].gumPending = FALSE]
     IN  IF cap = "nomethod"
           THEN /\ lastAlert' =
                     "Unable to access camera. Please make sure you have granted camera permissions."
                /\ IF effects[e].mounted /\ showCamera
                     THEN /\ isCameraLoading' = FALSE
                          /\ streams' = stopTracks(acquired,
                                 IF curEffect = 0 THEN 0
                                 ELSE held[curEffect].currentStream)
                          /\ videos' = clearVideo(videos, videoElementOf(curEffect))
                          /\ stream' = IF curEffect # 0
                                          /\ stream = held[curEffect].currentStream
                                         THEN 0 ELSE stream
                          /\ curEffect' = 0
                          /\ videoRef' = 0
                          /\ showCamera' = FALSE
                          /\ effects' = markCleaned(held, curEffect)
                     ELSE /\ effects' = held
                          /\ streams' = acquired
                          /\ isCameraLoading' = (IF effects[e].mounted THEN FALSE
                                                 ELSE isCameraLoading)
                          /\ UNCHANGED <<showCamera, stream, videoRef, curEffect,
                                         videos>>
                /\ UNCHANGED isTorchSupported
           ELSE /\ streams' = acquired
                /\ effects' = [held EXCEPT ![e].iplayPending = effects[e].mounted]
                /\ videos' = [videos EXCEPT ![effects[e].el] =
                     [srcObject |-> s, onloadedmetadata |-> e,
                      readyState |-> HAVE_NOTHING, hasDims |-> FALSE]]
                /\ IF effects[e].mounted
                     THEN /\ isTorchSupported' = torchIn(cap)
                          /\ stream' = s
                     ELSE UNCHANGED <<isTorchSupported, stream>>
                /\ UNCHANGED <<showCamera, isCameraLoading, videoRef, curEffect>>
                /\ lastAlert' = "none"
  /\ UNCHANGED <<facingMode, isTorchOn, appVars>>

\* getUserMedia rejected: the catch of setupStream, the effect it re-runs
GumRejected(e) ==
  /\ e \in 1..Len(effects)
  /\ effects[e].gumPending
  /\ lastAlert' =
       "Unable to access camera. Please make sure you have granted camera permissions."
  /\ IF effects[e].mounted /\ showCamera
       THEN /\ CloseEffect
            /\ effects' = [markCleaned(effects, curEffect) EXCEPT ![e].gumPending = FALSE]
       ELSE /\ effects' = [effects EXCEPT ![e].gumPending = FALSE]
            /\ isCameraLoading' = (IF effects[e].mounted THEN FALSE
                                   ELSE isCameraLoading)
            /\ UNCHANGED <<showCamera, stream, videoRef, curEffect, videos,
                           streams>>
  /\ UNCHANGED <<facingMode, isTorchSupported, isTorchOn, appVars>>

\* the loadedmetadata event of a video element, attached to the document or
\* not: the installed handler calls videoRef.current.play() when the ref of
\* its component instance holds an element
MetadataLoaded(v, dims) ==
  /\ v \in 1..Len(videos)
  /\ videos[v].srcObject # 0
  /\ videos[v].readyState = HAVE_NOTHING
  /\ videos' = [videos EXCEPT ![v].readyState = HAVE_METADATA, ![v].hasDims = dims]
  /\ LET h == videos[v].onloadedmetadata
     IN  effects' = IF h # 0 /\ effects[h].mounted /\ videoRef # 0
                      THEN [effects EXCEPT ![h].mplayPending = TRUE]
                      ELSE effects
  /\ UNCHANGED <<compVars, streams, appVars>>
  /\ lastAlert' = "none"

\* the immediate videoElement.play() settled
ImmediatePlaySettled(e, ok) ==
  /\ e \in 1..Len(effects)
  /\ effects[e].iplayPending
  /\ effects[e].mounted
  /\ effects' = [effects EXCEPT ![e].iplayPending = FALSE]
  /\ isCameraLoading' = (IF ok THEN FALSE ELSE isCameraLoading)
  /\ UNCHANGED <<showCamera, stream, facingMode, isTorchSupported, isTorchOn,
                 videoRef, curEffect, videos, streams, appVars>>
  /\ lastAlert' = "none"

\* the play() called by the onloadedmetadata handler settled, with a catch
\* that leaves the loading state as it is
MetadataPlaySettledCatchKeepsLoading(e, ok) ==
  /\ e \in 1..Len(effects)
  /\ effects[e].mplayPending
  /\ effects[e].mounted
  /\ effects' = [effects EXCEPT ![e].mplayPending = FALSE]
  /\ isCameraLoading' = (IF ok THEN FALSE ELSE isCameraLoading)
  /\ UNCHANGED <<showCamera, stream, facingMode, isTorchSupported, isTorchOn,
                 videoRef, curEffect, videos, streams, appVars>>
  /\ lastAlert' = "none"

\* the play() called by the onloadedmetadata handler settled (both the
\* resolved and the rejected branch end the loading state)
MetadataPlaySettled(e, ok) ==
  /\ e \in 1..Len(effects)
  /\ effects[e].mplayPending
  /\ effects[e].mounted
  /\ effects' = [effects EXCEPT ![e].mplayPending = FALSE]
  /\ isCameraLoading' = FALSE
  /\ UNCHANGED <<showCamera, stream, facingMode, isTorchSupported, isTorchOn,
                 videoRef, curEffect, videos, streams, appVars>>
  /\ lastAlert' = "none"

\* --------------------------------------------------------- specification
\* The scan flow with both sources of images, the file input and the camera,
\* over MaxSpecEffects camera requests.
Next ==
  \/ SplashComplete
  \/ \E v \in Views : SetCurrentView(v)
  \/ \E f \in Files : handleFile(f)
  \/ \E r \in requests, ok \in BOOLEAN : FileReadDone(r, ok)
  \/ \E r \in requests, res \in AnalysisResults, env \in Browser :
        AnalysisResolved(r, res, env)
  \/ \E r \in requests : AnalysisRejected(r)
  \/ handleReset
  \/ Len(effects) < MaxSpecEffects /\ handleStartCameraClick
  \/ stopCamera
  \/ Len(effects) < MaxSpecEffects /\ toggleCamera
  \/ \E ctx \in BOOLEAN, facing \in Facings : capturePhoto(ctx, facing)
  \/ \E e \in 1..Len(effects), cap \in TorchCapabilities : GumResolved(e, cap)
  \/ \E e \in 1..Len(effects) : GumRejected(e)
  \/ \E v \in 1..Len(videos), dims \in BOOLEAN : MetadataLoaded(v, dims)
  \/ \E e \in 1..Len(effects), ok \in BOOLEAN : ImmediatePlaySettled(e, ok)
  \/ \E e \in 1..Len(effects), ok \in BOOLEAN : MetadataPlaySettled(e, ok)

Spec == Init /\ [][Next]_vars

\* The scan flow over every shape of the storage item; the camera stays closed.
NextHistory ==
  \/ SplashComplete
  \/ \E v \in Views : SetCurrentView(v)
  \/ \E f \in Files : handleFile(f)
  \/ \E r \in requests, ok \in BOOLEAN : FileReadDone(r, ok)
  \/ \E r \in requests, res \in AnalysisResults, env \in Browser :
        AnalysisResolved(r, res, env)
  \/ \E r \in requests : AnalysisRejected(r)
  \/ handleReset

SpecHistory == InitAll /\ [][NextHistory]_vars

\* The camera, from a first run (no stored history).
InitTorch ==
  /\ stored = StoredNull
  /\ scanLog = <<>>
  /\ InitState

\* The camera alone on every kind of device; no image is submitted.
NextCamera ==
  \/ SplashComplete
  \/ \E v \in Views : SetCurrentView(v)
  \/ handleStartCameraClick
  \/ stopCamera
  \/ toggleCamera
  \/ \E e \in 1..Len(effects), cap \in TorchCapabilities : GumResolved(e, cap)
  \/ \E e \in 1..Len(effects) : GumRejected(e)
  \/ \E v \in 1..Len(videos), dims \in BOOLEAN : MetadataLoaded(v, dims)
  \/ \E e \in 1..Len(effects), ok \in BOOLEAN : ImmediatePlaySettled(e, ok)
  \/ \E e \in 1..Len(effects), ok \in BOOLEAN : MetadataPlaySettled(e, ok)

\* The camera up to the submission of a captured image.
NextCapture ==
  \/ SplashComplete
  \/ \E v \in Views : SetCurrentView(v)
  \/ handleStartCameraClick
  \/ stopCamera
  \/ toggleCamera
  \/ \E e \in 1..Len(effects), cap \in TorchCapabilities : GumResolved(e, cap)
  \/ \E e \in 1..Len(effects) : GumRejected(e)
  \/ \E v \in 1..Len(videos), dims \in BOOLEAN : MetadataLoaded(v, dims)
  \/ \E e \in 1..Len(effects), ok \in BOOLEAN : ImmediatePlaySettled(e, ok)
  \/ \E e \in 1..Len(effects), ok \in BOOLEAN : MetadataPlaySettled(e, ok)
  \/ \E ctx \in BOOLEAN, facing \in Facings : capturePhoto(ctx, facing)

SpecCapture == InitTorch /\ [][NextCapture]_vars

\* The camera with its torch.
NextTorch ==
  \/ SplashComplete
  \/ \E v \in Views : SetCurrentView(v)
  \/ handleStartCameraClick
  \/ stopCamera
  \/ toggleCamera
  \/ \E e \in 1..Len(effects), cap \in TorchCapabilities : GumResolved(e, cap)
  \/ \E e \in 1..Len(effects) : GumRejected(e)
  \/ \E v \in 1..Len(videos), dims \in BOOLEAN : MetadataLoaded(v, dims)
  \/ \E e \in 1..Len(effects), ok \in BOOLEAN : ImmediatePlaySettled(e, ok)
  \/ \E e \in 1..Len(effects), ok \in BOOLEAN : MetadataPlaySettled(e, ok)
  \/ toggleTorch
  \/ \E s \in 1..Len(streams), on \in BOOLEAN, ok \in BOOLEAN : TorchApplied(s, on, ok)

SpecTorch == InitTorch /\ [][NextTorch]_vars

\* The scan flow together with location sharing; the camera stays closed.
\* handleLocationToggle and the geolocation callbacks read and write only
\* location, locationEnabled and geoPending.
NextLocation ==
  \/ SplashComplete
  \/ \E v \in Views : SetCurrentView(v)
  \/ \E enabled \in BOOLEAN : handleLocationToggle(enabled)
  \/ \E position \in Positions : GeoResolved(position)
  \/ GeoRejected
  \/ \E f \in Files : handleFile(f)
  \/ \E r \in requests, ok \in BOOLEAN : FileReadDone(r, ok)
  \/ \E r \in requests, res \in AnalysisResults, env \in Browser :
        AnalysisResolved(r, res, env)
  \/ \E r \in requests : AnalysisRejected(r)
  \/ handleReset

SpecLocation == Init /\ [][NextLocation]_vars

\* =================================================================== claims
\* a step in which an analysis call resolved / was rejected
AnalysisSucceededStep == scanLog' # scanLog
AnalysisFailedStep ==
  /\ requests' # requests
  /\ requests' \subseteq requests
  /\ scanLog' = scanLog

StoredItems == IF stored.kind = "array" THEN stored.items ELSE <<>>

\* C1: the persisted history list never holds more than 50 entries, and right
\* after each successful analysis the entry created for it is at index 0.
C1_CappedNewestFirst ==
  [][ /\ stored'.kind = "array" => Len(stored'.items) <= HistoryCap
      /\ AnalysisSucceededStep =>
           /\ stored'.kind = "array"
           /\ Len(stored'.items) >= 1
           /\ stored'.items[1] = scanLog'[1] ]_vars

\* C2: once more than 50 analyses have succeeded, the persisted history is
\* exactly the 50 most recent of them, newest first, each with its content.
C2_KeepsFiftyMostRecent ==
  Len(scanLog) > HistoryCap =>
    /\ stored.kind = "array"
    /\ stored.items = SubSeq(scanLog, 1, HistoryCap)

\* C3: when the analysis call fails the persisted history is unchanged, the
\* error message is set, and the scan view is idle again (not analyzing, no
\* results), so the error indicator shows in the scan view.
C3_FailureKeepsHistoryShowsError ==
  [][ AnalysisFailedStep =>
        /\ stored' = stored
        /\ error' = ErrorAnalysis
        /\ ~analyzing'
        /\ results' = Null
        /\ currentView' = "scan" => ErrorIndicatorVisible' ]_vars

C3_Witness ==
  /\ nScans > 0
  /\ requests = {}
  /\ error = ErrorAnalysis
  /\ results = Null
  /\ ~analyzing
  /\ stored.kind = "array"
  /\ ErrorIndicatorVisible

\* C4: when the analysis call succeeds exactly one entry, pairing the
\* submitted image with the returned result, is added to the persisted
\* history, and error is null afterwards while the results are shown.
C4_SuccessAddsOneEntryNoError ==
  [][ AnalysisSucceededStep =>
        /\ stored'.kind = "array"
        /\ stored'.items =
             SubSeq(<<scanLog'[1]>> \o StoredItems, 1,
                    Min(Len(StoredItems) + 1, HistoryCap))
        /\ scanLog'[1].results = results'
        /\ scanLog'[1].imageUrl = currentImage'
        /\ error' = Null ]_vars

\* C5: a stored history value that is absent or not a well-formed list counts
\* as an empty history: a successful analysis then persists the list of just
\* the new entry, the result is set, and error stays null.
C5_MalformedHistoryIsEmpty ==
  [][ (AnalysisSucceededStep /\ stored.kind # "array") =>
        /\ stored' = JSONstringify(<<scanLog'[1]>>)
        /\ results' # Null
        /\ ~analyzing'
        /\ error' = Null ]_vars

\* C6: at most one acquired media stream has live tracks, in every state.
C6_AtMostOneLiveStream == Cardinality(LiveStreams) <= 1

\* a step of toggleCamera: the facing mode flips while the camera stays open
ToggleStep == showCamera /\ showCamera' /\ facingMode' # facingMode

\* a step in which the getUserMedia request of effect e resolved and
\* setupStream went on with the stream
AcquisitionSucceededStep(e) ==
  /\ effects[e].gumPending
  /\ Len(streams') = Len(streams) + 1
  /\ effects'[e].currentStream = Len(streams')
  /\ lastAlert' = "none"

\* C7: a facing-mode toggle with a stream open stops that stream's tracks in
\* the step that requests getUserMedia for the new mode, and when that request
\* succeeds exactly one stream is live, the one delivered to that request.
C7_ToggleLeavesOneStream ==
  [][ /\ (ToggleStep /\ stream # 0) =>
           /\ ~streams'[stream].live
           /\ effects'[curEffect'].gumPending
           /\ effects'[curEffect'].mode = facingMode'
      /\ \A e \in 1..Len(effects) :
           (effects[e].by = "toggle" /\ AcquisitionSucceededStep(e))
           => LiveStreams' = {Len(streams')} ]_vars

CameraViewOpen == Mounted /\ showCamera
AcquisitionPending == \E e \in 1..Len(effects) : effects[e].gumPending

\* C8: once the camera view is closed and every acquisition has settled (also
\* one that settled after the view closed), every acquired stream has its
\* tracks stopped and no video element holds a source.
C8_ClosedViewReleasesStreams ==
  (~CameraViewOpen /\ ~AcquisitionPending) =>
    /\ LiveStreams = {}
    /\ \A v \in 1..Len(videos) : videos[v].srcObject = 0

VideoNotReady(video) ==
  video.readyState < HAVE_METADATA \/ ~video.hasDims
NotReadyAlerts ==
  {"Camera is not ready yet. Please wait a moment.",
   "Camera is not ready yet, please wait a moment and try again."}

\* C9: while the video of the open camera has no metadata or no dimensions, no
\* step (so no capture request) starts an analysis or selects an image, and
\* the step that answers a capture request with the not-ready alert changes
\* nothing of the application or of the camera session.
C9_CaptureNotReadyRejected ==
  [][ /\ (CameraViewOpen /\ videoRef # 0 /\ VideoNotReady(videos[videoRef])) =>
           /\ nScans' = nScans
           /\ requests' = requests
           /\ analyzing' = analyzing
           /\ currentImage' = currentImage
      /\ lastAlert' \in NotReadyAlerts =>
           /\ CameraViewOpen /\ VideoNotReady(videos[videoRef])
           /\ UNCHANGED <<appVars, camVars>> ]_vars

C9_Witness ==
  /\ lastAlert = "Camera is not ready yet, please wait a moment and try again."
  /\ CameraViewOpen
  /\ ~isCameraLoading
  /\ stream # 0
  /\ videos[videoRef].readyState = HAVE_METADATA
  /\ ~videos[videoRef].hasDims

\* file.type begins with "image/"
DeclaredImage(file) ==
  /\ Len(file.type) >= 2
  /\ file.type[1] = "image"
  /\ file.type[2] = "/"

\* C10: a selected file whose declared type does not start with "image/" is
\* rejected: no handleImageAnalysis invocation ever carries such a file, and
\* the step that answers with the upload alert leaves analyzing, results,
\* error, the history and the rest of the state unchanged.
C10_NonImageFileRejected ==
  [][ /\ \A r \in requests' \ requests :
           r.stage = "reading" => DeclaredImage(r.file)
      /\ lastAlert' = "Please upload an image file" =>
           UNCHANGED <<appVars, camVars>> ]_vars

C10_Witness ==
  /\ lastAlert = "Please upload an image file"
  /\ Mounted
  /\ requests = {}
  /\ nScans = 0

\* an image that capturePhoto encoded
Captured(img) == img # Null /\ img.kind = "jpeg"

\* a step in which capturePhoto accepted the request
CaptureAcceptedStep == CameraViewOpen /\ nScans' = nScans + 1

\* C11: a captured still is mirrored if and only if the camera whose frame was
\* drawn is front-facing ("user"), and the facingMode state read by
\* capturePhoto is the facing mode that the stream in the video element was
\* requested with.
C11_MirroredIffFrontFacing ==
  [][ CaptureAcceptedStep =>
        /\ \A r \in requests' \ requests :
             r.image.mirrored <=> r.image.frame = "user"
        /\ \A e \in 1..Len(effects) :
             effects[e].currentStream = videos[videoRef].srcObject
               => effects[e].mode = facingMode ]_vars

\* C12: while the last location request was a disable, every analysis call
\* that starts is sent without coordinates, whatever geolocation callbacks
\* arrived in between.
C12_DisabledLocationNotSent ==
  [][ (nScans' = nScans + 1 /\ ~locationEnabled) =>
        \A r \in requests' \ requests : r.loc = Null ]_vars

\* C13: an analysis outcome that arrives while the current view is not the
\* scan view is ignored: results, error and currentImage keep their values.
C13_StaleOutcomeIgnored ==
  [][ ((AnalysisSucceededStep \/ AnalysisFailedStep) /\ currentView # "scan") =>
        /\ results' = results
        /\ error' = error
        /\ currentImage' = currentImage ]_vars

\* App returns its root container (the div of min-h-screen) and not the splash
AppContainerRendered == ~showSplash

\* C14: in the state right after mounting, before any event or timer, App
\* renders its root application container.
C14_InitiallyRendersContainer == InitState => AppContainerRendered

\* C15: an accepted capture hands exactly one encoded image to
\* onImageSelected and closes the camera: afterwards the camera view is closed
\* and the stream whose frame was captured has its tracks stopped.
C15_CaptureDeliversOnceAndCloses ==
  [][ CaptureAcceptedStep =>
        /\ Cardinality(requests' \ requests) = 1
        /\ \A r \in requests' \ requests : Captured(r.image)
        /\ ~CameraViewOpen'
        /\ ~streams'[videos[videoRef].srcObject].live ]_vars

\* C16: every getUserMedia request caused by a start-camera request asks for
\* the rear-facing mode, also when the previous session was closed while
\* front-facing.
C16_StartUsesEnvironment ==
  \A e \in 1..Len(effects) :
    effects[e].by = "start" => effects[e].mode = "environment"

\* the same ImageUpload instance closed a front-facing session and was then
\* asked to start the camera
C16_Witness ==
  \E e \in 2..Len(effects) :
    /\ effects[e].by = "start"
    /\ effects[e].mounted
    /\ effects[e - 1].mode = "user"
    /\ effects[e - 1].mounted
    /\ effects[e].currentStream # 0

\* a step in which the getUserMedia request of effect e was rejected
AcquisitionFailedStep(e) ==
  /\ effects[e].gumPending
  /\ ~effects'[e].gumPending
  /\ Len(streams') = Len(streams)
  /\ lastAlert' =
       "Unable to access camera. Please make sure you have granted camera permissions."

\* C17: when the stream acquisition of the mounted component fails, the camera
\* is Closed afterwards: the camera view is hidden, the loading flag is false,
\* no stream is held, the error is alerted, and no new acquisition is started.
C17_AcquisitionFailureCloses ==
  [][ \A e \in 1..Len(effects) :
        (AcquisitionFailedStep(e) /\ effects[e].mounted) =>
          /\ ~showCamera'
          /\ ~isCameraLoading'
          /\ stream' = 0
          /\ Len(effects') = Len(effects)
          /\ \A f \in 1..Len(effects) :
               effects'[f].gumPending => effects[f].gumPending ]_vars

\* the applyConstraints calls pending on the track of stream s
applying(ss, s) == ss[s].applyingOn + ss[s].applyingOff

\* steps of the torch toggle, seen on stream s
TorchChanged(s) == streams'[s].torch # streams[s].torch
ApplyRequestedStep(s) == applying(streams', s) > applying(streams, s)
ApplySucceededStep(s) ==
  /\ applying(streams', s) < applying(streams, s)
  /\ lastAlert' # "Unable to toggle torch."
TorchAlerts == {"Torch is not supported.", "Unable to toggle torch."}

\* C18: a torch toggle changes neither the device torch setting nor isTorchOn
\* when no stream is held, when the track reports no torch capability, or
\* when applyConstraints fails; the device setting changes only when
\* applyConstraints succeeds on a live torch-capable track, and isTorchOn flips
\* with it; isTorchOn flips only when such a call succeeds.
C18_TorchToggleOnlyOnSuccess ==
  [][ /\ \A s \in 1..Len(streams) :
           /\ TorchChanged(s) =>
                /\ streams[s].live
                /\ streams[s].torchCap
                /\ ApplySucceededStep(s)
                /\ holderMounted(s) => isTorchOn' # isTorchOn
           /\ ApplyRequestedStep(s) =>
                /\ s = stream
                /\ streams[s].live
                /\ streams[s].torchCap
                /\ ~TorchChanged(s)
                /\ isTorchOn' = isTorchOn
      /\ (Mounted /\ Mounted' /\ isTorchOn' # isTorchOn) =>
           \E s \in 1..Len(streams) :
             ApplySucceededStep(s) /\ streams[s].torchCap
      /\ lastAlert' \in TorchAlerts =>
           /\ isTorchOn' = isTorchOn
           /\ \A s \in 1..Len(streams) : ~TorchChanged(s) ]_vars

C18_Witness ==
  /\ CameraViewOpen
  /\ stream # 0
  /\ streams[stream].live
  /\ streams[stream].torch
  /\ isTorchOn
  /\ applying(streams, stream) = 0

\* a step in which a play() promise started by effect e settled
PlaySettledStep(e) ==
  /\ effects'[e].mounted
  /\ curEffect' = curEffect
  /\ \/ effects[e].iplayPending /\ ~effects'[e].iplayPending
     \/ effects[e].mplayPending /\ ~effects'[e].mplayPending

\* C19: the completion of a play attempt never turns the loading state on,
\* and the completion of an attempt that belongs to an earlier stream (its
\* effect is no longer the current one) leaves the loading state of the later
\* Opening unchanged.
C19_StalePlayCompletionIsNoOp ==
  [][ \A e \in 1..Len(effects) :
        PlaySettledStep(e) =>
          IF e = curEffect
            THEN isCameraLoading' => isCameraLoading
            ELSE isCameraLoading' = isCameraLoading ]_vars

\* the sub-views of the scan view that are rendered
ScanSubViews ==
  {v \in {"idle", "analyzing", "results"} :
     \/ v = "idle" /\ Mounted
     \/ v = "analyzing" /\ AnalyzingOverlayRendered
     \/ v = "results" /\ ResultsDisplayRendered}

\* C20: whenever the scan view is the current view (the splash screen is
\* over), exactly one of the sub-views idle/upload, analyzing and results is
\* rendered.
C20_ExactlyOneScanSubView ==
  (~showSplash /\ currentView = "scan") => Cardinality(ScanSubViews) = 1

\* the number of analyzeImage calls that invocation rid has made
CallsOf(rid) ==
  Cardinality({i \in 1..Len(analyzeCalls) : analyzeCalls[i] = rid})

\* invocation rid still waits for its file to be read
Reading(rid) == \E r \in requests : r.rid = rid /\ r.stage = "reading"

\* C21: every accepted image (file or camera) has caused exactly one call of
\* analyzeImage once its data is available and none before, and no call is
\* made for anything but an accepted image; in particular a failed analysis
\* is never called again.
C21_OneCallPerAcceptedImage ==
  /\ \A rid \in 1..nScans : CallsOf(rid) = IF Reading(rid) THEN 0 ELSE 1
  /\ \A i \in 1..Len(analyzeCalls) : analyzeCalls[i] \in 1..nScans

\* a first analysis failed, the user submitted a second image, and its call
\* was made
C21_Witness ==
  /\ nScans = 2
  /\ analyzeCalls = <<1, 2>>
  /\ scanLog = <<>>
  /\ \E r \in requests : r.rid = 2 /\ r.stage = "analyzing"

\* C22: a step that changes currentView (a navigation button) leaves
\* results, error, analyzing, currentImage, location and the stored history
\* as they were, and currentView is always one of the four views.
C22_ViewSwitchChangesOnlyView ==
  /\ [](currentView \in Views)
  /\ [][ currentView' # currentView =>
           UNCHANGED <<results, error, analyzing, currentImage, location, stored>>
      ]_vars

\* the user has left the scan view for the history view while the second
\* analysis is pending, an image is held and a location has been obtained
C22_Witness ==
  /\ currentView = "history"
  /\ location # Null
  /\ analyzing
  /\ currentImage # Null
  /\ nScans = 2

\* C23: at most one handleImageAnalysis invocation is suspended at an await
\* at any time, and while one is, analyzing is set and ImageUpload (the only
\* place an image can be submitted from) is not rendered, in whatever view.
C23_AtMostOneRequestInFlight ==
  /\ Cardinality(requests) <= 1
  /\ requests # {} => analyzing /\ ~Mounted

\* the second submission is in flight, the first has settled, and the user
\* is on the scan view
C23_Witness ==
  /\ nScans = 2
  /\ Cardinality(requests) = 1
  /\ currentView = "scan"
  /\ ~showSplash

\* the stream held in the stream state, when its track is running
ActiveStream == IF Mounted /\ stream # 0 /\ streams[stream].live THEN stream ELSE 0

\* C24: isTorchOn equals the torch setting of the track of the active stream,
\* and it is false when no stream is active (which includes the moment a new
\* stream has been acquired, whose torch setting is off).
C24_TorchFlagMatchesTrack ==
  IF ActiveStream # 0
    THEN isTorchOn = streams[ActiveStream].torch
    ELSE ~isTorchOn

\* Every device callback is eventually delivered: each getUserMedia promise
\* settles, each play() promise settles, and loadedmetadata fires on a video
\* element that was given a stream.  The user's actions carry no fairness.
DeviceCallbacksFire ==
  /\ \A e \in 1..MaxEffects :
       WF_vars((\E cap \in TorchCapabilities : GumResolved(e, cap)) \/ GumRejected(e))
  /\ \A e \in 1..MaxEffects : WF_vars(\E ok \in BOOLEAN : ImmediatePlaySettled(e, ok))
  /\ \A e \in 1..MaxEffects : WF_vars(\E ok \in BOOLEAN : MetadataPlaySettled(e, ok))
  /\ \A v \in 1..MaxEffects : WF_vars(\E dims \in BOOLEAN : MetadataLoaded(v, dims))

SpecCameraFair == InitTorch /\ [][NextCamera]_vars /\ DeviceCallbacksFire

\* the camera is Live: the view is open and the stream state holds a running
\* stream
CameraLive == CameraViewOpen /\ ActiveStream # 0

\* C25: with every device callback eventually delivered, an open camera view
\* that is loading (after a start request or a facing-mode toggle) eventually
\* is Live with isCameraLoading false, or is closed.
C25_LoadingEventuallyEnds ==
  (CameraViewOpen /\ isCameraLoading) ~>
     (~CameraViewOpen \/ (CameraLive /\ ~isCameraLoading))

\* a facing-mode toggle has ended its loading state with its own stream Live
C25_Witness ==
  /\ CameraLive
  /\ ~isCameraLoading
  /\ curEffect # 0
  /\ effects[curEffect].by = "toggle"
  /\ effects[curEffect].currentStream = stream

\* The scan flow over every shape of the storage item, with each awaited
\* promise of a handleImageAnalysis invocation eventually settled: the file
\* read ends (onloadend) and analyzeImage resolves or rejects.  The user's
\* actions carry no fairness.
AnalysisPromisesSettle ==
  /\ \A rid \in 1..MaxScans :
       WF_vars(\E r \in requests, ok \in BOOLEAN : r.rid = rid /\ FileReadDone(r, ok))
  /\ \A rid \in 1..MaxScans :
       WF_vars(\E r \in requests :
                 /\ r.rid = rid
                 /\ \/ AnalysisRejected(r)
                    \/ \E res \in AnalysisResults, env \in Browser :
                          AnalysisResolved(r, res, env))

SpecHistoryFair == InitAll /\ [][NextHistory]_vars /\ AnalysisPromisesSettle

\* C26: with the file read and the analysis call eventually settled, the
\* analyzing state that a submitted image starts eventually ends, and it ends
\* with a result or an error set (success, failure, and a throw of
\* saveToHistory after the result was set).
C26_AnalyzingEventuallyEnds ==
  /\ analyzing ~> (~analyzing /\ (results # Null \/ error # Null))
  /\ [][ (analyzing /\ ~analyzing') => (results' # Null \/ error' # Null) ]_vars

\* an analysis has ended on the path where saveToHistory threw: the result is
\* set and so is the error
C26_Witness ==
  /\ ~analyzing
  /\ requests = {}
  /\ results # Null
  /\ error = ErrorAnalysis
  /\ analyzeCalls # <<>>

====
